---- MODULE Spec2Model ----
(***************************************************************************)
(* The mirror field engine of mrrcrypt64 (src/modules/mirrorfield.c):      *)
(* loading, validating, linking and traversing the mirror fields, the      *)
(* rotation of the mirrors and the rolling of the perimeter characters.    *)
(***************************************************************************)
EXTENDS Integers, Sequences, FiniteSets, TLC

\* ------------------------------------------------------------------------
\* Sizes.  GRID_SIZE and MIRROR_FIELD_COUNT are compile-time macros of the
\* program; the model is checked for small values of them.
\* ------------------------------------------------------------------------
GRID_SIZE == 2
MIRROR_FIELD_COUNT == 2

MIRROR_NONE == -1
MIRROR_FORWARD == -2
MIRROR_STRAIGHT == -3
MIRROR_BACKWARD == -4
DIR_UP == 1
DIR_DOWN == 2
DIR_LEFT == 3
DIR_RIGHT == 4

\* Bytes of the key file that stand for mirrors: '/', '\', '-', ' '.
CH_SLASH == 47
CH_BACKSLASH == 92
CH_DASH == 45
CH_SPACE == 32

Fields == 0 .. (MIRROR_FIELD_COUNT - 1)
Cells == 0 .. (GRID_SIZE * GRID_SIZE - 1)
Slots == 0 .. (GRID_SIZE * 4 - 1)
MirrorTotal == GRID_SIZE * GRID_SIZE * MIRROR_FIELD_COUNT
LoadTotal == MirrorTotal + GRID_SIZE * 4 * MIRROR_FIELD_COUNT

\* ------------------------------------------------------------------------
\* struct gridnode and the two static arrays.  A pointer is the address of
\* an element of gridnodes ("g") or of perimeter ("p"), or NULL.
\* ------------------------------------------------------------------------
NULL == <<"null", 0, 0>>
GridPtr(k, j) == <<"g", k, j>>
PerimPtr(k, i) == <<"p", k, i>>

gridnode(v) == [value |-> v, up |-> NULL, down |-> NULL, left |-> NULL, right |-> NULL]

\* The static storage of the module at program start: zero-initialised
\* arrays and the initialisers of the function-local statics.
StaticMem ==
    [gridnodes |-> [k \in Fields |-> [j \in Cells |-> gridnode(0)]],
     perimeter |-> [k \in Fields |-> [i \in Slots |-> gridnode(0)]],
     set_i |-> 0, set_j |-> 0,
     m |-> 0,
     g1 |-> 0, g2 |-> GRID_SIZE * 2, c |-> 0,
     resetCursor |-> 0]

\* *p for a non-NULL pointer p.
Deref(mem, p) ==
    IF p[1] = "g" THEN mem.gridnodes[p[2]][p[3]] ELSE mem.perimeter[p[2]][p[3]]

\* p->f = q
SetLink(mem, p, f, q) ==
    IF p[1] = "g"
    THEN [mem EXCEPT !.gridnodes[p[2]][p[3]] = [@ EXCEPT ![f] = q]]
    ELSE [mem EXCEPT !.perimeter[p[2]][p[3]] = [@ EXCEPT ![f] = q]]

\* p->value = v
SetValue(mem, p, v) ==
    IF p[1] = "g"
    THEN [mem EXCEPT !.gridnodes[p[2]][p[3]].value = v]
    ELSE [mem EXCEPT !.perimeter[p[2]][p[3]].value = v]

\* ------------------------------------------------------------------------
\* mirrorfield_init
\* ------------------------------------------------------------------------
mirrorfield_init(mem) ==
    [mem EXCEPT !.gridnodes = [k \in Fields |-> [j \in Cells |-> gridnode(0)]],
                !.perimeter = [k \in Fields |-> [i \in Slots |-> gridnode(0)]]]

\* ------------------------------------------------------------------------
\* mirrorfield_set: the new memory and the value returned.
\* ------------------------------------------------------------------------
MirrorCode(ch) ==
    IF ch = CH_SLASH THEN MIRROR_FORWARD
    ELSE IF ch = CH_BACKSLASH THEN MIRROR_BACKWARD
    ELSE IF ch = CH_DASH THEN MIRROR_STRAIGHT
    ELSE IF ch = CH_SPACE THEN MIRROR_NONE
    ELSE 0

\* SetMirrorIndex with the cell index one too far.
SetMirrorIndex_OffByOne(i) == (i + 1) % (GRID_SIZE * GRID_SIZE)

SetMirrorIndex(i) == i % (GRID_SIZE * GRID_SIZE)

SetPerimeterIndex(i) == (i - MirrorTotal) % (GRID_SIZE * 4)

SetAdvance(i) == i + 1

mirrorfield_set(mem, ch) ==
    LET i == mem.set_i IN
    IF i < MirrorTotal
    THEN LET j == i \div (GRID_SIZE * GRID_SIZE) IN
         IF MirrorCode(ch) # 0
         THEN [mem |-> [mem EXCEPT !.set_j = j,
                                   !.gridnodes[j][SetMirrorIndex(i)].value = MirrorCode(ch),
                                   !.set_i = SetAdvance(i)],
               ret |-> 1]
         ELSE [mem |-> [mem EXCEPT !.set_j = j], ret |-> 0]
    ELSE IF i < LoadTotal
    THEN LET j == (i - MirrorTotal) \div (GRID_SIZE * 4) IN
         [mem |-> [mem EXCEPT !.set_j = j,
                              !.perimeter[j][SetPerimeterIndex(i)].value = ch,
                              !.set_i = SetAdvance(i)],
          ret |-> 1]
    ELSE [mem |-> mem, ret |-> 0]

\* ------------------------------------------------------------------------
\* mirrorfield_validate
\* ------------------------------------------------------------------------
BadMirror(v) == v > MIRROR_NONE \/ v < MIRROR_BACKWARD

\* DuplicatePair comparing neighbouring perimeter nodes only.
DuplicatePair_Neighbours(mem, k, i, j) ==
    j = i + 1 /\ mem.perimeter[k][i].value = mem.perimeter[k][j].value

DuplicatePair(mem, k, i, j) == mem.perimeter[k][i].value = mem.perimeter[k][j].value

mirrorfield_validate(mem) ==
    IF \E k \in Fields : \E i \in Cells : BadMirror(mem.gridnodes[k][i].value)
    THEN 0
    ELSE IF \E k \in Fields : \E i \in Slots : \E j \in (i + 1) .. (GRID_SIZE * 4 - 1) :
                DuplicatePair(mem, k, i, j)
    THEN 0
    ELSE 1

\* ------------------------------------------------------------------------
\* mirrorfield_link
\* ------------------------------------------------------------------------
\* LinkDown without the link back up.
LinkDown_OneWay(mem, temp, q) == SetLink(mem, temp, "down", q)

\* temp->down = &gridnodes[k][j]; gridnodes[k][j].up = temp;
LinkDown(mem, temp, q) == SetLink(SetLink(mem, temp, "down", q), q, "up", temp)

\* temp->right = &gridnodes[k][j]; gridnodes[k][j].left = temp;
LinkRight(mem, temp, q) == SetLink(SetLink(mem, temp, "right", q), q, "left", temp)

\* The inner loop of "Linking up/down": j from i in steps of GRID_SIZE,
\* then the link to the bottom perimeter node.
RECURSIVE LinkColumn(_, _, _, _, _)
LinkColumn(mem, k, i, j, temp) ==
    IF j < GRID_SIZE * GRID_SIZE
    THEN LinkColumn(LinkDown(mem, temp, GridPtr(k, j)), k, i, j + GRID_SIZE, GridPtr(k, j))
    ELSE LinkDown(mem, temp, PerimPtr(k, i + GRID_SIZE * 2))

\* The inner loop of "Linking right/left": j over row i, then the link to
\* the right perimeter node.
RECURSIVE LinkRow(_, _, _, _, _)
LinkRow(mem, k, i, j, temp) ==
    IF j < i * GRID_SIZE + GRID_SIZE
    THEN LinkRow(LinkRight(mem, temp, GridPtr(k, j)), k, i, j + 1, GridPtr(k, j))
    ELSE LinkRight(mem, temp, PerimPtr(k, i + GRID_SIZE))

RECURSIVE LinkColumns(_, _, _)
LinkColumns(mem, k, i) ==
    IF i < GRID_SIZE
    THEN LinkColumns(LinkColumn(mem, k, i, i, PerimPtr(k, i)), k, i + 1)
    ELSE mem

RECURSIVE LinkRows(_, _, _)
LinkRows(mem, k, i) ==
    IF i < GRID_SIZE
    THEN LinkRows(LinkRow(mem, k, i, i * GRID_SIZE, PerimPtr(k, i + GRID_SIZE * 3)), k, i + 1)
    ELSE mem

\* One round of the loop over the mirror fields.
LinkField(mem, k) == LinkRows(LinkColumns(mem, k, 0), k, 0)

\* "Looping over each mirror field": round k writes nodes of field k only.
mirrorfield_link(mem) ==
    LET linked == [k \in Fields |-> LinkField(mem, k)]
    IN  [mem EXCEPT !.gridnodes = [k \in Fields |-> linked[k].gridnodes[k]],
                    !.perimeter = [k \in Fields |-> linked[k].perimeter[k]]]

\* ------------------------------------------------------------------------
\* mirrorfield_crypt_char_advance: the node returned, the memory after the
\* rotations, and the interior nodes passed through, in order.  A step
\* through a NULL link dereferences NULL: node NULL stands for that.  The
\* parameters debug and m are used by the draw and the sleep only, which
\* mirrorfield_crypt_char accounts for (mirrorfield_draw below): neither
\* is a parameter here.
\* ------------------------------------------------------------------------
\* "Advance character": p = p->down, p->left, p->right or p->up.
AdvanceStep(mem, p, d) ==
    CASE d = DIR_DOWN -> Deref(mem, p).down
      [] d = DIR_LEFT -> Deref(mem, p).left
      [] d = DIR_RIGHT -> Deref(mem, p).right
      [] d = DIR_UP -> Deref(mem, p).up
      [] OTHER -> p

\* Reflect with the forward mirror sending DIR_DOWN back to DIR_UP.
Reflect_DownUp(v, d) ==
    IF v = MIRROR_FORWARD
    THEN CASE d = DIR_DOWN -> DIR_UP
           [] d = DIR_LEFT -> DIR_DOWN
           [] d = DIR_RIGHT -> DIR_UP
           [] d = DIR_UP -> DIR_RIGHT
           [] OTHER -> d
    ELSE IF v = MIRROR_BACKWARD
    THEN CASE d = DIR_DOWN -> DIR_RIGHT
           [] d = DIR_LEFT -> DIR_UP
           [] d = DIR_RIGHT -> DIR_DOWN
           [] d = DIR_UP -> DIR_LEFT
           [] OTHER -> d
    ELSE d

\* Reflect with the forward mirror sending DIR_UP to DIR_LEFT.
Reflect_UpLeft(v, d) ==
    IF v = MIRROR_FORWARD
    THEN CASE d = DIR_DOWN -> DIR_LEFT
           [] d = DIR_LEFT -> DIR_DOWN
           [] d = DIR_RIGHT -> DIR_UP
           [] d = DIR_UP -> DIR_LEFT
           [] OTHER -> d
    ELSE IF v = MIRROR_BACKWARD
    THEN CASE d = DIR_DOWN -> DIR_RIGHT
           [] d = DIR_LEFT -> DIR_UP
           [] d = DIR_RIGHT -> DIR_DOWN
           [] d = DIR_UP -> DIR_LEFT
           [] OTHER -> d
    ELSE d

\* The new direction at a node of value v entered in direction d.
Reflect(v, d) ==
    IF v = MIRROR_FORWARD
    THEN CASE d = DIR_DOWN -> DIR_LEFT
           [] d = DIR_LEFT -> DIR_DOWN
           [] d = DIR_RIGHT -> DIR_UP
           [] d = DIR_UP -> DIR_RIGHT
           [] OTHER -> d
    ELSE IF v = MIRROR_BACKWARD
    THEN CASE d = DIR_DOWN -> DIR_RIGHT
           [] d = DIR_LEFT -> DIR_UP
           [] d = DIR_RIGHT -> DIR_DOWN
           [] d = DIR_UP -> DIR_LEFT
           [] OTHER -> d
    ELSE d

\* Rotate going round the cycle the other way.
Rotate_Reversed(v) ==
    IF v = MIRROR_FORWARD THEN MIRROR_BACKWARD
    ELSE IF v = MIRROR_BACKWARD THEN MIRROR_STRAIGHT
    ELSE IF v = MIRROR_STRAIGHT THEN MIRROR_FORWARD
    ELSE v

\* Rotate with the straight mirror turned back to forward.
Rotate_TwoCycle(v) ==
    IF v = MIRROR_FORWARD THEN MIRROR_STRAIGHT
    ELSE IF v = MIRROR_BACKWARD THEN MIRROR_FORWARD
    ELSE IF v = MIRROR_STRAIGHT THEN MIRROR_FORWARD
    ELSE v

\* "Rotate mirror after we get cyphertext".
Rotate(v) ==
    IF v = MIRROR_FORWARD THEN MIRROR_STRAIGHT
    ELSE IF v = MIRROR_BACKWARD THEN MIRROR_FORWARD
    ELSE IF v = MIRROR_STRAIGHT THEN MIRROR_BACKWARD
    ELSE v

\* "If we don't have the cypthertext": the test p->value < 0.
IsMirror(v) == v < 0

\* n counts the calls on the stack.  A node can be entered in four
\* directions, so a ray that makes more than 4*GRID_SIZE*GRID_SIZE + 1
\* steps is on a cycle: the recursion never returns and the process dies
\* when the stack is used up.  Node NULL stands for that too.
RECURSIVE mirrorfield_crypt_char_advance(_, _, _, _)
mirrorfield_crypt_char_advance(mem, p, d, n) ==
    LET q == AdvanceStep(mem, p, d) IN
    IF q = NULL \/ n > 4 * GRID_SIZE * GRID_SIZE + 1
    THEN [node |-> NULL, mem |-> mem, path |-> <<>>]
    ELSE IF IsMirror(Deref(mem, q).value)
    THEN LET t == mirrorfield_crypt_char_advance(mem, q, Reflect(Deref(mem, q).value, d), n + 1) IN
         IF t.node = NULL
         THEN t
         ELSE [node |-> t.node,
               mem |-> SetValue(t.mem, q, Rotate(Deref(t.mem, q).value)),
               path |-> <<q>> \o t.path]
    ELSE [node |-> q, mem |-> mem, path |-> <<>>]

\* ------------------------------------------------------------------------
\* mirrorfield_roll_chars
\* ------------------------------------------------------------------------
\* RollGreater without the comparison: the end character always first.
RollGreater_EndFirst(mem, s, e, m) == {FALSE}

\* RollGreater with the comparison turned round.
RollGreater_Less(mem, s, e, m) ==
    IF s \in Slots /\ e \in Slots
    THEN {mem.perimeter[m][s].value < mem.perimeter[m][e].value}
    ELSE BOOLEAN

\* RollGreater without the comparison: the start character always first.
RollGreater_StartFirst(mem, s, e, m) == {TRUE}

\* The outcomes of perimeter[m][s].value > perimeter[m][e].value.  An index
\* outside 0 .. GRID_SIZE*4-1 reads past the row of the array: the value
\* read is whatever lies there, so the comparison may go either way.
RollGreater(mem, s, e, m) ==
    IF s \in Slots /\ e \in Slots
    THEN {mem.perimeter[m][s].value > mem.perimeter[m][e].value}
    ELSE BOOLEAN

\* for (i = 0; perimeter[m][i].value != x; ++i);
\* The loop has no bound; x is the value of a perimeter node of field m
\* whenever the traversal ended on the perimeter.
RollSearch(mem, m, x) ==
    CHOOSE i \in Slots :
        /\ mem.perimeter[m][i].value = x
        /\ \A j \in 0 .. (i - 1) : mem.perimeter[m][j].value # x

\* RollSwap on the perimeter row of field 0 whatever the field.
RollSwap_FirstField(mem, m, i, g) ==
    LET t == mem.perimeter[0][i].value
        mem1 == [mem EXCEPT !.perimeter[0][i].value = mem.perimeter[0][g].value]
    IN [mem1 EXCEPT !.perimeter[0][g].value = t]

\* RollSwap without the temporary: the second store reads the node the first
\* store has overwritten.
RollSwap_NoTemp(mem, m, i, g) ==
    LET mem1 == [mem EXCEPT !.perimeter[m][i].value = mem.perimeter[m][g].value]
    IN [mem1 EXCEPT !.perimeter[m][g].value = mem1.perimeter[m][i].value]

\* t = perimeter[m][i].value; perimeter[m][i].value = perimeter[m][g].value;
\* perimeter[m][g].value = t;
RollSwap(mem, m, i, g) ==
    LET t == mem.perimeter[m][i].value
        mem1 == [mem EXCEPT !.perimeter[m][i].value = mem.perimeter[m][g].value]
    IN [mem1 EXCEPT !.perimeter[m][g].value = t]

\* RollWindow advancing g1 only.
RollWindow_OneIndex(mem) ==
    IF mem.c + 1 = MIRROR_FIELD_COUNT
    THEN [mem EXCEPT !.g1 = (mem.g1 + 1) % (GRID_SIZE * 4),
                     !.c = 0]
    ELSE [mem EXCEPT !.c = mem.c + 1]

\* RollWindow testing the round counter before it is incremented.
RollWindow_LateTest(mem) ==
    IF mem.c = MIRROR_FIELD_COUNT
    THEN [mem EXCEPT !.g1 = (mem.g1 + 1) % (GRID_SIZE * 4),
                     !.g2 = (mem.g2 + 1) % (GRID_SIZE * 4),
                     !.c = 0]
    ELSE [mem EXCEPT !.c = mem.c + 1]

\* "The g holds the roll position".
RollWindow(mem) ==
    IF mem.c + 1 = MIRROR_FIELD_COUNT
    THEN [mem EXCEPT !.g1 = (mem.g1 + 1) % (GRID_SIZE * 4),
                     !.g2 = (mem.g2 + 1) % (GRID_SIZE * 4),
                     !.c = 0]
    ELSE [mem EXCEPT !.c = mem.c + 1]

\* The roll for one outcome gt of the comparison.
RollWith(mem, s, e, m, gt) ==
    LET x1 == IF gt THEN s ELSE e
        x2 == IF gt THEN e ELSE s
        mem1 == RollSwap(mem, m, RollSearch(mem, m, x1), mem.g1)
        mem2 == RollSwap(mem1, m, RollSearch(mem1, m, x2), mem.g2)
    IN RollWindow(mem2)

mirrorfield_roll_chars(mem, s, e, m) ==
    {RollWith(mem, s, e, m, gt) : gt \in RollGreater(mem, s, e, m)}

\* ------------------------------------------------------------------------
\* mirrorfield_crypt_char: the set of outcomes of one call.  An outcome has
\* status "ok" (the call returned rv) or "crashed" (the process ended in
\* the call).  start is the index of startnode, -1 when the search found
\* none; path holds the interior nodes the traversal passed through.
\* ------------------------------------------------------------------------
\* "Get starting node": the first perimeter node of field m holding ch.
CryptSearch(mem, ch) ==
    LET hits == {i \in Slots : mem.perimeter[mem.m][i].value = ch} IN
    IF hits = {} THEN -1 ELSE CHOOSE i \in hits : \A j \in hits : i <= j

\* "Set initial direction".  With no link set d is read uninitialised.
InitialDirection(node) ==
    IF node.down # NULL THEN {DIR_DOWN}
    ELSE IF node.up # NULL THEN {DIR_UP}
    ELSE IF node.left # NULL THEN {DIR_LEFT}
    ELSE IF node.right # NULL THEN {DIR_RIGHT}
    ELSE {0, DIR_UP, DIR_DOWN, DIR_LEFT, DIR_RIGHT}

\* (ev + sv) % (GRID_SIZE * 4)
SelectIndex(sv, ev) == (ev + sv) % (GRID_SIZE * 4)

\* SelectOutput with the two results exchanged.
SelectOutput_Exchanged(mem, m, sv, ev) ==
    IF mem.perimeter[m][SelectIndex(sv, ev)].value = SelectIndex(sv, ev) THEN ev ELSE sv

\* "This is a way of returning the cleartext char as the cyphertext char".
SelectOutput(mem, m, sv, ev) ==
    IF mem.perimeter[m][SelectIndex(sv, ev)].value = SelectIndex(sv, ev) THEN sv ELSE ev

\* CycleField wrapping one field early.
CycleField_EarlyWrap(m) == IF m + 1 < MIRROR_FIELD_COUNT - 1 THEN m + 1 ELSE 0

\* "Cycle mirror field index".
CycleField(m) == (m + 1) % MIRROR_FIELD_COUNT

Crashed(mem, ch, i) ==
    [status |-> "crashed", mem |-> mem, ch |-> ch, rv |-> -1, field |-> mem.m,
     g1 |-> mem.g1, g2 |-> mem.g2, start |-> i, end |-> NULL,
     sv |-> -1, ev |-> -1, path |-> <<>>]

\* The call from the traversal on, for startnode = &perimeter[m][i].
CryptFrom(mem, ch, i, found, d) ==
    LET m == mem.m
        startnode == PerimPtr(m, i)
        t == mirrorfield_crypt_char_advance(mem, startnode, d, 1)
    IN IF t.node = NULL
       THEN {Crashed(mem, ch, i)}
       ELSE LET sv == Deref(t.mem, startnode).value % 256
                ev == Deref(t.mem, t.node).value % 256
            IN {[status |-> "ok",
                 mem |-> [r EXCEPT !.m = CycleField(m)],
                 ch |-> ch,
                 rv |-> SelectOutput(r, m, sv, ev),
                 field |-> m, g1 |-> mem.g1, g2 |-> mem.g2,
                 start |-> IF found THEN i ELSE -1, end |-> t.node,
                 sv |-> sv, ev |-> ev, path |-> t.path]
                 : r \in mirrorfield_roll_chars(t.mem, sv, ev, m)}

\* startnode is still NULL after the search and startnode->down is read:
\* the process is killed by the access, or the read yields whatever lies
\* at that address and the call goes on from a stray node (any perimeter
\* node of the field stands for it).
NullStart(mem, ch) ==
    {Crashed(mem, ch, -1)} \cup
    UNION {UNION {CryptFrom(mem, ch, i, FALSE, d) :
                      d \in InitialDirection(mem.perimeter[mem.m][i])} : i \in Slots}

\* ------------------------------------------------------------------------
\* mirrorfield_draw, called by mirrorfield_crypt_char_advance before every
\* step when debug is not 0.  It prints the field and sets resetCursor; what
\* it prints is not kept.  It reads gridnodes[m][j] for the top, right and
\* left characters with j inside the row of the field, and for the bottom
\* characters with j = c + GRID_SIZE*3, which lies outside the row unless
\* GRID_SIZE >= 4: the build addresses the cell of a later field there, or
\* memory past the array for the last fields.  All draws of one call precede
\* the first rotation and see the same memory: one draw stands for them.
\* ------------------------------------------------------------------------
DrawBottomIndex(c) == c + (GRID_SIZE * 3)

\* &gridnodes[m][j] lies inside the gridnodes array.
DrawInArray(m, j) ==
    m * GRID_SIZE * GRID_SIZE + j < MIRROR_FIELD_COUNT * GRID_SIZE * GRID_SIZE

\* gridnodes[m][j] as the build addresses it.
DrawCell(mem, m, j) ==
    LET flat == m * GRID_SIZE * GRID_SIZE + j
    IN mem.gridnodes[flat \div (GRID_SIZE * GRID_SIZE)][flat % (GRID_SIZE * GRID_SIZE)]

\* The pointers whose ->value is printed, read inside the array.
DrawPointers(mem, m) ==
    {DrawCell(mem, m, c).up : c \in 0 .. (GRID_SIZE - 1)}
    \cup {DrawCell(mem, m, r * GRID_SIZE + (GRID_SIZE - 1)).right : r \in 0 .. (GRID_SIZE - 1)}
    \cup {DrawCell(mem, m, DrawBottomIndex(c)).down :
              c \in {x \in 0 .. (GRID_SIZE - 1) : DrawInArray(m, DrawBottomIndex(x))}}
    \cup {DrawCell(mem, m, r * GRID_SIZE).left : r \in 0 .. (GRID_SIZE - 1)}

\* Some bottom character is read through a pointer taken from memory past
\* the gridnodes array.
DrawStray(m) == \E c \in 0 .. (GRID_SIZE - 1) : ~DrawInArray(m, DrawBottomIndex(c))

\* The outcomes of the draw: the field was drawn, or the process was killed
\* by the read through a NULL or stray pointer.
mirrorfield_draw(mem, m) ==
    LET drawn == [ok |-> TRUE, mem |-> [mem EXCEPT !.resetCursor = 1]]
        killed == [ok |-> FALSE, mem |-> mem]
    IN IF NULL \in DrawPointers(mem, m) THEN {killed}
       ELSE IF DrawStray(m) THEN {killed, drawn}
       ELSE {drawn}

\* The call for startnode = &perimeter[m][i] with the debug flag set.
CryptDrawn(mem, ch, i) ==
    UNION {IF w.ok
           THEN UNION {CryptFrom(w.mem, ch, i, TRUE, d) :
                           d \in InitialDirection(mem.perimeter[mem.m][i])}
           ELSE {Crashed(mem, ch, i)} : w \in mirrorfield_draw(mem, mem.m)}

mirrorfield_crypt_char(mem, ch, debug) ==
    LET i == CryptSearch(mem, ch) IN
    IF i = -1
    THEN NullStart(mem, ch)
    ELSE IF debug # 0
    THEN CryptDrawn(mem, ch, i)
    ELSE UNION {CryptFrom(mem, ch, i, TRUE, d) :
                    d \in InitialDirection(mem.perimeter[mem.m][i])}

\* ------------------------------------------------------------------------
\* Bounds of the model, and the key files and input bytes the driver draws.
\* ------------------------------------------------------------------------
MaxCalls == 1
NumLayouts == 7
NumAlphabets == 5

MirrorChars == <<CH_SPACE, CH_SLASH, CH_DASH, CH_BACKSLASH>>
BadByte == 120

\* The mirror byte of cell (r, c) in layout n: four uniform layouts, a ring
\* of mirrors that leads the ray around the rim of the grid and back through
\* cell (0, 0), and striped layouts.
LayoutChar(n, r, c) ==
    CASE n \in 0 .. 3 -> MirrorChars[n + 1]
      [] n = 4 -> IF r = 0 /\ c = 0 THEN CH_DASH
                  ELSE IF r = GRID_SIZE - 1 /\ c = 0 THEN CH_BACKSLASH
                  ELSE IF r = GRID_SIZE - 1 /\ c = GRID_SIZE - 1 THEN CH_SLASH
                  ELSE IF r = 0 /\ c = GRID_SIZE - 1 THEN CH_BACKSLASH
                  ELSE CH_SPACE
      [] OTHER -> MirrorChars[(((n - 4) * r + c + n) % 4) + 1]

\* The character code of perimeter slot i in alphabet t.  Alphabets 0..2 are
\* permutations of 0 .. GRID_SIZE*4-1; the others hold larger codes.
AlphabetCode(t, i) ==
    CASE t = 0 -> i
      [] t = 1 -> GRID_SIZE * 4 - 1 - i
      [] t = 2 -> (5 * i + 1) % (GRID_SIZE * 4)
      [] t = 3 -> 65 + i
      [] OTHER -> IF i % 2 = 0 THEN i ELSE 150 + 10 * t + i

\* The key file with layout (s + k) and alphabet (t + k) for field k, the
\* alphabets taken among the first na.
KeyFile(s, t, na) ==
    [n \in 1 .. LoadTotal |->
        IF n <= MirrorTotal
        THEN LET k == (n - 1) \div (GRID_SIZE * GRID_SIZE)
                 j == (n - 1) % (GRID_SIZE * GRID_SIZE)
             IN LayoutChar((s + k) % NumLayouts, j \div GRID_SIZE, j % GRID_SIZE)
        ELSE LET k == (n - 1 - MirrorTotal) \div (GRID_SIZE * 4)
                 i == (n - 1 - MirrorTotal) % (GRID_SIZE * 4)
             IN AlphabetCode((t + k) % na, i)]

InsertAt(f, p, b) == SubSeq(f, 1, p) \o <<b>> \o SubSeq(f, p + 1, Len(f))

\* Field k's last slot given the code of its first slot.
DuplicateIn(f, k) ==
    [f EXCEPT ![MirrorTotal + (k + 1) * GRID_SIZE * 4] = f[MirrorTotal + k * GRID_SIZE * 4 + 1]]

GoodKeyFiles == {KeyFile(s, s % NumAlphabets, NumAlphabets) : s \in 0 .. (NumLayouts - 1)}

FaultyKeyFiles ==
    {InsertAt(KeyFile(5, 3, NumAlphabets), p, BadByte) : p \in (0 .. MirrorTotal) \cup {LoadTotal}}
    \cup {DuplicateIn(KeyFile(6, 0, NumAlphabets), k) : k \in Fields}
    \cup {KeyFile(4, 1, NumAlphabets) \o <<CH_SLASH, 65>>}

\* ------------------------------------------------------------------------
\* State.  The statics of the module, each under its own name; the second
\* process of an encrypt/decrypt pair (peer); and what the driver and the
\* properties use: the key file and how much of it was fed (env), the last
\* call and its result (last), the record of every mirrorfield_crypt_char
\* call (log), and whether the process is still running (status).
\* ------------------------------------------------------------------------
VARIABLES gridnodes, perimeter, set_i, set_j, crypt_m, roll_g1, roll_g2, roll_c,
          draw_resetCursor,
          status, last, log, env, peer

memvars == <<gridnodes, perimeter, set_i, set_j, crypt_m, roll_g1, roll_g2, roll_c,
             draw_resetCursor>>
vars == <<gridnodes, perimeter, set_i, set_j, crypt_m, roll_g1, roll_g2, roll_c,
          draw_resetCursor,
          status, last, log, env, peer>>

Mem ==
    [gridnodes |-> gridnodes, perimeter |-> perimeter,
     set_i |-> set_i, set_j |-> set_j, m |-> crypt_m,
     g1 |-> roll_g1, g2 |-> roll_g2, c |-> roll_c,
     resetCursor |-> draw_resetCursor]

Store(mem) ==
    /\ gridnodes' = mem.gridnodes
    /\ perimeter' = mem.perimeter
    /\ set_i' = mem.set_i
    /\ set_j' = mem.set_j
    /\ crypt_m' = mem.m
    /\ roll_g1' = mem.g1
    /\ roll_g2' = mem.g2
    /\ roll_c' = mem.c
    /\ draw_resetCursor' = mem.resetCursor

NoCall == [op |-> "none", ch |-> -1, ret |-> -1]

NoPeer == [mem |-> StaticMem, log |-> <<>>, status |-> "running"]

Values(row) == [i \in DOMAIN row |-> row[i].value]

\* What the driver has done so far: the key file and the number of its
\* bytes fed, whether the last mirrorfield_validate returned 1 and
\* mirrorfield_link has run since the last mirrorfield_init, whether the
\* load was given up, the number of bytes stored since the arrays were
\* last zeroed and the perimeter values as they stood after the last load
\* or init, and the plan the input bytes are drawn by.
Env(f, plan) ==
    [keyfile |-> f, fed |-> 0, validated |-> FALSE, linked |-> FALSE, aborted |-> FALSE,
     stored |-> 0,
     loaded |-> [k \in Fields |-> Values(StaticMem.perimeter[k])],
     plan |-> plan]

\* The process at its start, about to read one of the key files.
Init ==
    /\ status = "running"
    /\ last = NoCall
    /\ log = <<>>
    /\ env \in {Env(f, <<0, 0>>) : f \in GoodKeyFiles \cup FaultyKeyFiles}
    /\ peer = NoPeer
    /\ gridnodes = StaticMem.gridnodes
    /\ perimeter = StaticMem.perimeter
    /\ set_i = 0 /\ set_j = 0 /\ crypt_m = 0
    /\ roll_g1 = 0 /\ roll_g2 = GRID_SIZE * 2 /\ roll_c = 0
    /\ draw_resetCursor = 0

Call(op, ch, ret) == [op |-> op, ch |-> ch, ret |-> ret]

\* What the log keeps of an outcome of mirrorfield_crypt_char.
Entry(o) ==
    [status |-> o.status, ch |-> o.ch, rv |-> o.rv, field |-> o.field,
     g1 |-> o.g1, g2 |-> o.g2, start |-> o.start, end |-> o.end,
     sv |-> o.sv, ev |-> o.ev, path |-> o.path]

\* The bytes the driver passes to mirrorfield_crypt_char: every character
\* of the current field, and one byte that is in no alphabet.
InputBytes(mem) == {mem.perimeter[mem.m][i].value : i \in Slots} \cup {BadByte}

\* ------------------------------------------------------------------------
\* Actions: one per exported function.  The driver calls mirrorfield_set
\* with the next byte of the key file until the load is given up by a new
\* mirrorfield_init; it validates and links before the first character is
\* processed, and calls mirrorfield_crypt_char only once
\* mirrorfield_validate has returned 1 and mirrorfield_link has run.
\* ------------------------------------------------------------------------
MirrorfieldInit ==
    /\ status = "running"
    /\ Store(mirrorfield_init(Mem))
    /\ last' = Call("init", -1, -1)
    /\ env' = [env EXCEPT !.validated = FALSE, !.linked = FALSE,
                          !.aborted = @ \/ env.fed > 0,
                          !.stored = 0,
                          !.loaded = [k \in Fields |-> Values(StaticMem.perimeter[k])]]
    /\ UNCHANGED <<status, log, peer>>

MirrorfieldSet ==
    /\ status = "running"
    /\ log = <<>>
    /\ ~env.aborted
    /\ env.fed < Len(env.keyfile)
    /\ LET ch == env.keyfile[env.fed + 1]
           r == mirrorfield_set(Mem, ch)
       IN /\ Store(r.mem)
          /\ last' = Call("set", ch, r.ret)
          /\ env' = [env EXCEPT !.fed = @ + 1,
                                !.validated = @ /\ r.ret = 0,
                                !.stored = @ + r.ret,
                                !.loaded = [k \in Fields |-> Values(r.mem.perimeter[k])]]
    /\ UNCHANGED <<status, log, peer>>

MirrorfieldValidate ==
    /\ status = "running"
    /\ log = <<>>
    /\ last' = Call("validate", -1, mirrorfield_validate(Mem))
    /\ env' = [env EXCEPT !.validated = (mirrorfield_validate(Mem) = 1)]
    /\ UNCHANGED <<memvars, status, log, peer>>

MirrorfieldLink ==
    /\ status = "running"
    /\ log = <<>>
    /\ Store(mirrorfield_link(Mem))
    /\ last' = Call("link", -1, -1)
    /\ env' = [env EXCEPT !.linked = TRUE]
    /\ UNCHANGED <<status, log, peer>>

\* After a call that read through the NULL startnode and returned, nothing
\* is known of the process: the model follows it no further.
StatusAfter(o) ==
    IF o.status = "crashed" THEN "crashed"
    ELSE IF o.start = -1 THEN "undefined"
    ELSE "running"

MirrorfieldCryptChar ==
    /\ status = "running"
    /\ env.validated /\ env.linked
    /\ Len(log) < MaxCalls
    /\ \E ch \in InputBytes(Mem) :
         \E o \in mirrorfield_crypt_char(Mem, ch, 0) :
            /\ Store(o.mem)
            /\ status' = StatusAfter(o)
            /\ last' = Call("crypt", ch, o.rv)
            /\ log' = Append(log, Entry(o))
    /\ UNCHANGED <<env, peer>>

Next ==
    \/ MirrorfieldInit
    \/ MirrorfieldSet
    \/ MirrorfieldValidate
    \/ MirrorfieldLink
    \/ MirrorfieldCryptChar

Spec == Init /\ [][Next]_vars

\* ------------------------------------------------------------------------
\* Properties of the life cycle (Spec).
\* ------------------------------------------------------------------------
LastEntry == log[Len(log)]

Row(j) == j \div GRID_SIZE
Col(j) == j % GRID_SIZE
CellAt(k, r, c) == GridPtr(k, r * GRID_SIZE + c)

\* C3: after mirrorfield_init every node has value 0 and no link, the roll
\* window is (0, 2*GRID_SIZE, 0) and the field cursor is 0.
C3_InitRestoresDefaults ==
    last.op = "init" =>
        /\ gridnodes = StaticMem.gridnodes
        /\ perimeter = StaticMem.perimeter
        /\ roll_g1 = 0 /\ roll_g2 = GRID_SIZE * 2 /\ roll_c = 0
        /\ crypt_m = 0

\* Every interior node holds one of the four mirror codes.
MirrorsLegal ==
    \A k \in Fields : \A j \in Cells :
        gridnodes[k][j].value \in {MIRROR_NONE, MIRROR_FORWARD, MIRROR_STRAIGHT, MIRROR_BACKWARD}

\* No two perimeter nodes of a field hold the same value.
PerimeterDistinct ==
    \A k \in Fields : Cardinality({perimeter[k][i].value : i \in Slots}) = GRID_SIZE * 4

\* C7 as stated: mirrorfield_validate returns 1 exactly when the mirrors are
\* legal and the perimeter values of each field distinct, and returns 0 on
\* an engine that is not fully loaded.
C7_ValidateRejectsPartialLoad ==
    last.op = "validate" =>
        /\ last.ret = 1 <=> (MirrorsLegal /\ PerimeterDistinct)
        /\ env.stored < LoadTotal => last.ret = 0

\* C7 amended: mirrorfield_validate returns 1 exactly when the mirrors are
\* legal and the perimeter values of each field distinct; it returns 0
\* whenever two or more bytes of the load are missing since the arrays were
\* zeroed; and it changes none of the statics.
C7_Validate ==
    /\ [](last.op = "validate" =>
            /\ last.ret = 1 <=> (MirrorsLegal /\ PerimeterDistinct)
            /\ env.stored < LoadTotal - 1 => last.ret = 0)
    /\ [][last'.op = "validate" => UNCHANGED memvars]_vars

\* A load with one byte missing that mirrorfield_validate accepts.
C7_Witness ==
    /\ last.op = "validate" /\ last.ret = 1
    /\ env.stored = LoadTotal - 1

\* C8: mirrorfield_set returns 0 exactly for a byte that is no mirror
\* character in the mirror section or for a byte past the end of the load;
\* a rejected byte changes neither the position nor a node; an accepted byte
\* is stored field-major at the position and the position advances by one.
C8_Set ==
    [][last'.op = "set" =>
        LET ch == last'.ch
            n == set_i
            p == set_i - MirrorTotal
        IN /\ last'.ret \in {0, 1}
           /\ last'.ret = 0 <=>
                \/ n < MirrorTotal /\ ch \notin {CH_SLASH, CH_BACKSLASH, CH_DASH, CH_SPACE}
                \/ n = LoadTotal
           /\ last'.ret = 0 =>
                set_i' = set_i /\ gridnodes' = gridnodes /\ perimeter' = perimeter
           /\ last'.ret = 1 =>
                /\ set_i' = n + 1
                /\ n < MirrorTotal =>
                     /\ perimeter' = perimeter
                     /\ gridnodes' = [gridnodes EXCEPT
                            ![n \div (GRID_SIZE * GRID_SIZE)][n % (GRID_SIZE * GRID_SIZE)].value =
                                CASE ch = CH_SLASH -> MIRROR_FORWARD
                                  [] ch = CH_BACKSLASH -> MIRROR_BACKWARD
                                  [] ch = CH_DASH -> MIRROR_STRAIGHT
                                  [] ch = CH_SPACE -> MIRROR_NONE]
                /\ n >= MirrorTotal =>
                     /\ gridnodes' = gridnodes
                     /\ perimeter' = [perimeter EXCEPT
                            ![p \div (GRID_SIZE * 4)][p % (GRID_SIZE * 4)].value = ch]
    ]_vars

\* A byte stored in the perimeter section after an earlier byte was rejected.
C8_Witness ==
    /\ last.op = "set" /\ last.ret = 1
    /\ set_i > MirrorTotal
    /\ env.fed > set_i

\* C9: a call of mirrorfield_crypt_char with a byte that no perimeter node
\* of the current field holds ends in an error outcome that is no byte, the
\* process going on, with no traversal, no roll and no cursor advance.
C9_LookupErrorReported ==
    (last.op = "crypt" /\ LastEntry.start = -1) =>
        /\ status = "running"
        /\ last.ret \notin 0 .. 255
        /\ LastEntry.end = NULL /\ LastEntry.path = <<>>
        /\ crypt_m = LastEntry.field
        /\ roll_g1 = LastEntry.g1 /\ roll_g2 = LastEntry.g2

\* The links mirrorfield_link is to leave in field k.
PerimeterLinked(k) ==
    \A i \in 0 .. (GRID_SIZE - 1) :
        /\ perimeter[k][i] =
             [perimeter[k][i] EXCEPT !.down = CellAt(k, 0, i),
                                     !.up = NULL, !.left = NULL, !.right = NULL]
        /\ perimeter[k][GRID_SIZE * 2 + i] =
             [perimeter[k][GRID_SIZE * 2 + i] EXCEPT !.up = CellAt(k, GRID_SIZE - 1, i),
                                     !.down = NULL, !.left = NULL, !.right = NULL]
        /\ perimeter[k][GRID_SIZE * 3 + i] =
             [perimeter[k][GRID_SIZE * 3 + i] EXCEPT !.right = CellAt(k, i, 0),
                                     !.up = NULL, !.down = NULL, !.left = NULL]
        /\ perimeter[k][GRID_SIZE + i] =
             [perimeter[k][GRID_SIZE + i] EXCEPT !.left = CellAt(k, i, GRID_SIZE - 1),
                                     !.up = NULL, !.down = NULL, !.right = NULL]

InteriorLinked(k) ==
    \A j \in Cells :
        /\ gridnodes[k][j].up =
             IF Row(j) = 0 THEN PerimPtr(k, Col(j)) ELSE CellAt(k, Row(j) - 1, Col(j))
        /\ gridnodes[k][j].down =
             IF Row(j) = GRID_SIZE - 1 THEN PerimPtr(k, GRID_SIZE * 2 + Col(j))
             ELSE CellAt(k, Row(j) + 1, Col(j))
        /\ gridnodes[k][j].left =
             IF Col(j) = 0 THEN PerimPtr(k, GRID_SIZE * 3 + Row(j))
             ELSE CellAt(k, Row(j), Col(j) - 1)
        /\ gridnodes[k][j].right =
             IF Col(j) = GRID_SIZE - 1 THEN PerimPtr(k, GRID_SIZE + Row(j))
             ELSE CellAt(k, Row(j), Col(j) + 1)

AllPtrs ==
    {GridPtr(k, j) : k \in Fields, j \in Cells} \cup {PerimPtr(k, i) : k \in Fields, i \in Slots}

\* a.down = b exactly when b.up = a, and a.right = b exactly when b.left = a.
LinksReciprocal ==
    \A a \in AllPtrs :
        LET n == Deref(Mem, a) IN
        /\ n.down # NULL => Deref(Mem, n.down).up = a
        /\ n.up # NULL => Deref(Mem, n.up).down = a
        /\ n.right # NULL => Deref(Mem, n.right).left = a
        /\ n.left # NULL => Deref(Mem, n.left).right = a

\* C10: once mirrorfield_link has run, every perimeter node has exactly the
\* one link into the grid that belongs to its edge, every interior node has
\* its four links to its row and column neighbours or to the perimeter node
\* at the end of its row or column, every link is reciprocal, and this
\* stays so through every mirrorfield_crypt_char call.
C10_Topology ==
    env.linked =>
        /\ \A k \in Fields : PerimeterLinked(k) /\ InteriorLinked(k)
        /\ LinksReciprocal

\* A character was processed after the link.
C10_Witness ==
    /\ env.linked
    /\ log # <<>> /\ status = "running"
    /\ LastEntry.path # <<>>

\* ------------------------------------------------------------------------
\* Runs of mirrorfield_crypt_char on a loaded engine (SpecRun).  The engine
\* starts as the driver leaves it after init, a full load of a key file,
\* validate and link; the bytes follow a plan <<a, b>>: call n is given the
\* character found at slot (a + b*n) mod GRID_SIZE*4 of the current field.
\* ------------------------------------------------------------------------
MaxStride == 3
MaxForks == 3
RunLen == GRID_SIZE * 4 * MIRROR_FIELD_COUNT + 2

Holds(mem) ==
    /\ gridnodes = mem.gridnodes
    /\ perimeter = mem.perimeter
    /\ set_i = mem.set_i
    /\ set_j = mem.set_j
    /\ crypt_m = mem.m
    /\ roll_g1 = mem.g1
    /\ roll_g2 = mem.g2
    /\ roll_c = mem.c
    /\ draw_resetCursor = mem.resetCursor

\* The memory after mirrorfield_set has taken the GRID_SIZE*GRID_SIZE*
\* MIRROR_FIELD_COUNT mirror bytes and the GRID_SIZE*4*MIRROR_FIELD_COUNT
\* perimeter bytes of key file f, each stored by the call made at its
\* position.
SetAt(mem, f, n) == mirrorfield_set([mem EXCEPT !.set_i = n], f[n + 1]).mem

LoadAll(mem, f) ==
    [mem EXCEPT
        !.gridnodes = [k \in Fields |-> [j \in Cells |->
            SetAt(mem, f, k * GRID_SIZE * GRID_SIZE + j).gridnodes[k][j]]],
        !.perimeter = [k \in Fields |-> [i \in Slots |->
            SetAt(mem, f, MirrorTotal + k * GRID_SIZE * 4 + i).perimeter[k][i]]],
        !.set_i = SetAt(mem, f, LoadTotal - 1).set_i,
        !.set_j = SetAt(mem, f, LoadTotal - 1).set_j]

\* The memory after init, the load of key file f, and link.
Ready(f) == mirrorfield_link(LoadAll(mirrorfield_init(StaticMem), f))

ReadyEnv(f, plan, mem) ==
    [Env(f, plan) EXCEPT !.fed = Len(f), !.validated = TRUE, !.linked = TRUE,
                         !.stored = mem.set_i,
                         !.loaded = [k \in Fields |-> Values(mem.perimeter[k])]]

\* The process after the load of key file f, about to process characters.
Loaded(f, plan) ==
    \E mem \in {Ready(f)} :
        /\ mirrorfield_validate(mem) = 1
        /\ Holds(mem)
        /\ env = ReadyEnv(f, plan, mem)
        /\ status = "running"
        /\ last = Call("link", -1, -1)
        /\ log = <<>>
        /\ peer = NoPeer

Plans == {<<a, b>> : a \in Slots, b \in 0 .. MaxStride}

PlanByte(mem, plan, n) == mem.perimeter[mem.m][(plan[1] + plan[2] * n) % (GRID_SIZE * 4)].value

\* A call whose roll compared through an index outside the perimeter row.
Forked(e) == e.sv \notin Slots \/ e.ev \notin Slots

InitRun == \E f \in GoodKeyFiles : \E plan \in Plans : Loaded(f, plan)

RunCryptChar ==
    /\ status = "running"
    /\ Len(log) < RunLen
    /\ Cardinality({n \in DOMAIN log : Forked(log[n])}) < MaxForks
    /\ \E o \in mirrorfield_crypt_char(Mem, PlanByte(Mem, env.plan, Len(log)), 0) :
            /\ Store(o.mem)
            /\ status' = StatusAfter(o)
            /\ last' = Call("crypt", o.ch, o.rv)
            /\ log' = Append(log, Entry(o))
    /\ UNCHANGED <<env, peer>>

NextRun == RunCryptChar

SpecRun == InitRun /\ [][NextRun]_vars

\* The memory SpecRun, SpecField and SpecPair start from is the memory the
\* life cycle reaches by feeding the whole key file and linking.
ReadyIsReached ==
    (env.fed = LoadTotal /\ env.stored = LoadTotal /\ env.linked /\ log = <<>>)
        => Mem = Ready(env.keyfile)

\* ------------------------------------------------------------------------
\* One traversal of field 0 for every layout with mirrors among the cells
\* 0 .. MaxMirrorCell and every entry slot (SpecField).
\* ------------------------------------------------------------------------
MaxMirrorCell == 3

SparseLayouts ==
    UNION {[on -> {CH_SLASH, CH_DASH, CH_BACKSLASH}] :
              on \in SUBSET (Cells \cap (0 .. MaxMirrorCell))}

\* The key file with the mirrors of lay in every field, the other cells
\* empty, and alphabet k for field k.
LayoutKeyFile(lay) ==
    [n \in 1 .. LoadTotal |->
        IF n <= MirrorTotal
        THEN LET j == (n - 1) % (GRID_SIZE * GRID_SIZE)
             IN IF j \in DOMAIN lay THEN lay[j] ELSE CH_SPACE
        ELSE KeyFile(0, 0, 3)[n]]

InitField == \E lay \in SparseLayouts : Loaded(LayoutKeyFile(lay), <<0, 0>>)

FieldCryptChar ==
    /\ status = "running"
    /\ log = <<>>
    /\ \E ch \in {perimeter[crypt_m][i].value : i \in Slots} :
         \E o \in mirrorfield_crypt_char(Mem, ch, 0) :
            /\ Store(o.mem)
            /\ status' = StatusAfter(o)
            /\ last' = Call("crypt", ch, o.rv)
            /\ log' = Append(log, Entry(o))
    /\ UNCHANGED <<env, peer>>

NextField == FieldCryptChar

SpecField == InitField /\ [][NextField]_vars

\* C2 as stated: the traversal ends on a perimeter node of the field after
\* at most GRID_SIZE*GRID_SIZE steps, a step being one move from a node to
\* the next.
C2_StepsWithinCells ==
    log # <<>> =>
        /\ status = "running"
        /\ LastEntry.end \in {PerimPtr(LastEntry.field, i) : i \in Slots}
        /\ Len(LastEntry.path) + 1 <= GRID_SIZE * GRID_SIZE

\* C2 amended: the traversal ends on a perimeter node of the field after
\* at most 2*GRID_SIZE*GRID_SIZE + 1 steps.
C2_Terminates ==
    log # <<>> =>
        /\ status = "running"
        /\ LastEntry.end \in {PerimPtr(LastEntry.field, i) : i \in Slots}
        /\ Len(LastEntry.path) + 1 <= 2 * GRID_SIZE * GRID_SIZE + 1

\* A traversal that passes through more interior nodes than the field has,
\* one of them twice.
C2_Witness ==
    /\ log # <<>>
    /\ Len(LastEntry.path) > GRID_SIZE * GRID_SIZE
    /\ \E a \in DOMAIN LastEntry.path : \E b \in DOMAIN LastEntry.path :
            a < b /\ LastEntry.path[a] = LastEntry.path[b]

\* ------------------------------------------------------------------------
\* Properties of runs (SpecRun).
\* ------------------------------------------------------------------------
\* C4: after any number of mirrorfield_crypt_char calls the perimeter values
\* of each field are pairwise distinct and are the values the field was
\* loaded with.
C4_AlphabetKept ==
    (log # <<>> /\ status = "running") =>
        \A k \in Fields :
            /\ Cardinality({perimeter[k][i].value : i \in Slots}) = GRID_SIZE * 4
            /\ {perimeter[k][i].value : i \in Slots} = {env.loaded[k][i] : i \in Slots}

\* Every field has been rolled twice and holds its characters in a new order.
C4_Witness ==
    /\ Len(log) >= 2 * MIRROR_FIELD_COUNT
    /\ status = "running"
    /\ \A k \in Fields : Values(perimeter[k]) # env.loaded[k]

\* C5: call n (from 0) is handled by field n mod MIRROR_FIELD_COUNT, so the
\* calls of a round use the fields 0 .. MIRROR_FIELD_COUNT-1 in this order.
C5_RoundRobin ==
    /\ \A n \in DOMAIN log : log[n].field = (n - 1) % MIRROR_FIELD_COUNT
    /\ \A r \in 0 .. Len(log) :
          (r % MIRROR_FIELD_COUNT = 0 /\ r + MIRROR_FIELD_COUNT <= Len(log)) =>
              [k \in Fields |-> log[r + 1 + k].field] = [k \in Fields |-> k]
    /\ crypt_m = Len(log) % MIRROR_FIELD_COUNT

\* Two full rounds and the start of a third.
C5_Witness ==
    /\ Len(log) = 2 * MIRROR_FIELD_COUNT + 1
    /\ status = "running"
    /\ LastEntry.field = 0

\* The number of rolls made since the window last moved.
RollsSinceMove ==
    Cardinality({n \in DOMAIN log : \A k \in n .. Len(log) : log[k].g1 = roll_g1})

\* C6: a roll moves the window exactly when it is the MIRROR_FIELD_COUNT-th
\* roll since the last move, and then by one position modulo GRID_SIZE*4
\* with the round counter back at 0; all calls of a round see one window.
C6_WindowCadence ==
    /\ [][log' # log =>
            IF RollsSinceMove = MIRROR_FIELD_COUNT - 1
            THEN /\ roll_g1' = (roll_g1 + 1) % (GRID_SIZE * 4)
                 /\ roll_g2' = (roll_g2 + 1) % (GRID_SIZE * 4)
                 /\ roll_g1' # roll_g1 /\ roll_g2' # roll_g2
                 /\ roll_c' = 0
            ELSE roll_g1' = roll_g1 /\ roll_g2' = roll_g2 /\ roll_c' = RollsSinceMove + 1
       ]_vars
    /\ [](\A n \in DOMAIN log :
            LET first == n - ((n - 1) % MIRROR_FIELD_COUNT) IN
            log[n].g1 = log[first].g1 /\ log[n].g2 = log[first].g2)

\* The window has gone once around the perimeter.
C6_Witness ==
    /\ Len(log) = GRID_SIZE * 4 * MIRROR_FIELD_COUNT
    /\ roll_g1 = 0 /\ roll_g2 = GRID_SIZE * 2 /\ roll_c = 0

\* ------------------------------------------------------------------------
\* An encrypting and a decrypting process (SpecPair).  Both start from the
\* same load of a key file whose character codes are permutations of
\* 0 .. GRID_SIZE*4-1; the second process (peer) is fed the bytes the first
\* one returns.
\* ------------------------------------------------------------------------
PairKeyFiles == {KeyFile(s, s % 3, 3) : s \in 0 .. (NumLayouts - 1)}

InitPair ==
    \E f \in PairKeyFiles : \E mem \in {Ready(f)} : \E plan \in Plans :
            /\ mirrorfield_validate(mem) = 1
            /\ Holds(mem)
            /\ env = ReadyEnv(f, plan, mem)
            /\ status = "running"
            /\ last = Call("link", -1, -1)
            /\ log = <<>>
            /\ peer = [mem |-> mem, log |-> <<>>, status |-> "running"]

\* The first process is given the next byte of the plan.
PairEncrypt ==
    /\ status = "running" /\ peer.status = "running"
    /\ Len(peer.log) = Len(log)
    /\ Len(log) < RunLen
    /\ \E o \in mirrorfield_crypt_char(Mem, PlanByte(Mem, env.plan, Len(log)), 0) :
            /\ Store(o.mem)
            /\ status' = StatusAfter(o)
            /\ last' = Call("crypt", o.ch, o.rv)
            /\ log' = Append(log, Entry(o))
    /\ UNCHANGED <<env, peer>>

\* The second process is given the byte the first one returned.
PairDecrypt ==
    /\ status = "running" /\ peer.status = "running"
    /\ Len(peer.log) < Len(log)
    /\ \E o \in mirrorfield_crypt_char(peer.mem, log[Len(peer.log) + 1].rv, 0) :
            peer' = [mem |-> o.mem, log |-> Append(peer.log, Entry(o)),
                     status |-> StatusAfter(o)]
    /\ UNCHANGED <<memvars, status, last, log, env>>

NextPair == PairEncrypt \/ PairDecrypt

SpecPair == InitPair /\ [][NextPair]_vars

\* C1: the second process returns, byte for byte, the sequence the first
\* process was given.
C1_RoundTrip ==
    /\ peer.status = "running"
    /\ \A n \in DOMAIN peer.log :
          /\ peer.log[n].status = "ok"
          /\ peer.log[n].start # -1
          /\ peer.log[n].ch = log[n].rv
          /\ peer.log[n].rv = log[n].ch

\* A full run decrypted, in which some byte was returned unchanged, some
\* byte was changed, and some traversal passed through a node twice.
C1_Witness ==
    /\ Len(peer.log) = RunLen
    /\ \E n \in DOMAIN log : log[n].rv = log[n].ch
    /\ \E n \in DOMAIN log : log[n].rv # log[n].ch
    /\ \E n \in DOMAIN log : Len(log[n].path) > GRID_SIZE * GRID_SIZE

\* ------------------------------------------------------------------------
\* Two processes loaded from the same key file (character codes within
\* 0 .. GRID_SIZE*4-1) and given the same bytes, each call with a debug
\* value of its own (SpecTwin).
\* ------------------------------------------------------------------------
MaxDebug == 1
TwinLen == MIRROR_FIELD_COUNT + 1

InitTwin ==
    \E f \in PairKeyFiles : \E mem \in {Ready(f)} : \E plan \in Plans :
            /\ mirrorfield_validate(mem) = 1
            /\ Holds(mem)
            /\ env = ReadyEnv(f, plan, mem)
            /\ status = "running"
            /\ last = Call("link", -1, -1)
            /\ log = <<>>
            /\ peer = [mem |-> mem, log |-> <<>>, status |-> "running"]

\* The first process is given the next byte of the plan.
TwinFirst ==
    /\ status = "running" /\ peer.status = "running"
    /\ Len(peer.log) = Len(log)
    /\ Len(log) < TwinLen
    /\ \E debug \in 0 .. MaxDebug :
         \E o \in mirrorfield_crypt_char(Mem, PlanByte(Mem, env.plan, Len(log)), debug) :
            /\ Store(o.mem)
            /\ status' = StatusAfter(o)
            /\ last' = Call("crypt", o.ch, o.rv)
            /\ log' = Append(log, Entry(o))
    /\ UNCHANGED <<env, peer>>

\* The second process is given the byte the first one was given.
TwinSecond ==
    /\ peer.status = "running"
    /\ Len(peer.log) < Len(log)
    /\ \E debug \in 0 .. MaxDebug :
         \E o \in mirrorfield_crypt_char(peer.mem, log[Len(peer.log) + 1].ch, debug) :
            peer' = [mem |-> o.mem, log |-> Append(peer.log, Entry(o)),
                     status |-> StatusAfter(o)]
    /\ UNCHANGED <<memvars, status, last, log, env>>

NextTwin == TwinFirst \/ TwinSecond

SpecTwin == InitTwin /\ [][NextTwin]_vars

\* The mirror values, perimeter values, roll window and field cursor.
CipherState(mem) ==
    [mirrors |-> [k \in Fields |-> Values(mem.gridnodes[k])],
     chars |-> [k \in Fields |-> Values(mem.perimeter[k])],
     g1 |-> mem.g1, g2 |-> mem.g2, c |-> mem.c, m |-> mem.m]

\* C11: two processes loaded alike and given the same bytes return the same
\* bytes and are in the same state after the same number of calls, whatever
\* the debug value of each call.
C11_Deterministic ==
    /\ status = "running" /\ peer.status = "running"
    /\ \A n \in DOMAIN peer.log : peer.log[n].rv = log[n].rv
    /\ Len(peer.log) = Len(log) => CipherState(peer.mem) = CipherState(Mem)

\* ------------------------------------------------------------------------
\* Properties of one call of mirrorfield_crypt_char, stated on the step
\* that appends the call to the log (SpecField, SpecRun).
\* ------------------------------------------------------------------------
\* The number of times the traversal of e passed through node q.
Passes(e, q) == Cardinality({n \in DOMAIN e.path : e.path[n] = q})

\* Mirror code v advanced n steps in FORWARD -> STRAIGHT -> BACKWARD -> FORWARD.
Advanced(v, n) ==
    LET cycle == <<MIRROR_FORWARD, MIRROR_STRAIGHT, MIRROR_BACKWARD>>
        at == CHOOSE x \in 1 .. 3 : cycle[x] = v
    IN IF v \in {MIRROR_FORWARD, MIRROR_STRAIGHT, MIRROR_BACKWARD}
       THEN cycle[((at - 1 + n) % 3) + 1]
       ELSE v

\* The direction a ray travelling d leaves a cell of code v in.
Turned(v, d) ==
    CASE v = MIRROR_FORWARD /\ d = DIR_DOWN -> DIR_LEFT
      [] v = MIRROR_FORWARD /\ d = DIR_LEFT -> DIR_DOWN
      [] v = MIRROR_FORWARD /\ d = DIR_RIGHT -> DIR_UP
      [] v = MIRROR_FORWARD /\ d = DIR_UP -> DIR_RIGHT
      [] v = MIRROR_BACKWARD /\ d = DIR_DOWN -> DIR_RIGHT
      [] v = MIRROR_BACKWARD /\ d = DIR_RIGHT -> DIR_DOWN
      [] v = MIRROR_BACKWARD /\ d = DIR_LEFT -> DIR_UP
      [] v = MIRROR_BACKWARD /\ d = DIR_UP -> DIR_LEFT
      [] OTHER -> d

\* The nodes of the traversal of e: entry slot, interior nodes, exit slot.
Route(e) == <<PerimPtr(e.field, e.start)>> \o e.path \o <<e.end>>

\* The directions in which node n of the route is left, in memory mem.
Leaving(mem, e, n) ==
    {d \in {DIR_UP, DIR_DOWN, DIR_LEFT, DIR_RIGHT} :
        AdvanceStep(mem, Route(e)[n], d) = Route(e)[n + 1]}

\* Every move of the route is the one the mirror codes held before the
\* call prescribe.
RouteFollows(mem, e) ==
    \A n \in 2 .. (Len(Route(e)) - 1) :
        \E d \in Leaving(mem, e, n - 1) :
            Leaving(mem, e, n) = {Turned(Deref(mem, Route(e)[n]).value, d)}

\* C12: a call advances every FORWARD, STRAIGHT or BACKWARD cell by as many
\* steps of the cycle as the ray passed through it, leaves every NONE cell
\* and every cell not passed through as it was, and reflects the ray by the
\* codes the cells held before the call.
C12_Rotation ==
    [][log' # log =>
        LET e == log'[Len(log')] IN
        /\ e.status = "ok"
        /\ \A k \in Fields : \A j \in Cells :
              gridnodes'[k][j].value =
                  Advanced(gridnodes[k][j].value, Passes(e, GridPtr(k, j)))
        /\ \A k \in Fields : \A j \in Cells :
              gridnodes[k][j].value = MIRROR_NONE => gridnodes'[k][j].value = MIRROR_NONE
        /\ RouteFollows(Mem, e)
    ]_vars

\* A traversal passed twice through a straight mirror, leaving it two steps
\* on as a forward mirror, and once through another cell.
C12_Witness ==
    /\ log # <<>>
    /\ \E j \in Cells :
          /\ Passes(LastEntry, GridPtr(LastEntry.field, j)) = 2
          /\ gridnodes[LastEntry.field][j].value = MIRROR_FORWARD
          /\ \E i \in Cells \ {j} : Passes(LastEntry, GridPtr(LastEntry.field, i)) = 1

\* C13: with sv the value of the entry slot and ev the value of the exit
\* slot before the roll and k = (ev + sv) mod GRID_SIZE*4, the call returns
\* sv if slot k of the field holds k after the roll and ev otherwise; the
\* byte returned is a character of the field.
C13_OutputSelection ==
    [][log' # log =>
        LET e == log'[Len(log')]
            k == (e.ev + e.sv) % (GRID_SIZE * 4)
        IN /\ e.status = "ok"
           /\ e.sv = perimeter[e.field][e.start].value
           /\ e.ev = Deref(Mem, e.end).value
           /\ last'.ret = IF perimeter'[e.field][k].value = k THEN e.sv ELSE e.ev
           /\ last'.ret \in {perimeter'[e.field][i].value : i \in Slots}
    ]_vars

\* The last call returned the byte it was given, an earlier one did not.
C13_Witness ==
    /\ log # <<>> /\ status = "running"
    /\ LastEntry.rv = LastEntry.sv /\ LastEntry.sv # LastEntry.ev
    /\ perimeter[LastEntry.field][(LastEntry.ev + LastEntry.sv) % (GRID_SIZE * 4)].value
          = (LastEntry.ev + LastEntry.sv) % (GRID_SIZE * 4)
    /\ \E n \in DOMAIN log : log[n].rv = log[n].ev

\* C14: after the roll of a call with sv # ev, slot g1 of the field (g1, g2
\* as before the window moves) holds x1 and slot g2 holds x2, x1 being the
\* one of sv, ev for which the slot indexed by its own code holds the
\* greater value and x2 the other; the slots x1 and x2 were found in hold
\* values that were at g1 and g2; no other slot of the field changes.
C14_RollResult ==
    [][(log' # log /\ log'[Len(log')].sv # log'[Len(log')].ev) =>
        LET e == log'[Len(log')]
            P == perimeter[e.field]
            Q == perimeter'[e.field]
            others == Slots \ {roll_g1, roll_g2}
        IN /\ {Q[roll_g1].value, Q[roll_g2].value} = {e.sv, e.ev}
           /\ Q[roll_g1].value # Q[roll_g2].value
           /\ (e.sv \in Slots /\ e.ev \in Slots) =>
                 Q[roll_g1].value = IF P[e.sv].value > P[e.ev].value THEN e.sv ELSE e.ev
           /\ \A i \in others :
                 IF P[i].value \in {e.sv, e.ev}
                 THEN Q[i].value \in {P[roll_g1].value, P[roll_g2].value}
                 ELSE Q[i] = P[i]
    ]_vars

\* A roll that moved the entry character to g1 and the exit character to
\* g2, both found outside the window.
C14_Witness ==
    /\ log # <<>> /\ status = "running"
    /\ LastEntry.sv # LastEntry.ev
    /\ LastEntry.start \notin {LastEntry.g1, LastEntry.g2}
    /\ LastEntry.end[3] \notin {LastEntry.g1, LastEntry.g2}
    /\ perimeter[LastEntry.field][LastEntry.g1].value = LastEntry.sv
    /\ perimeter[LastEntry.field][LastEntry.g2].value = LastEntry.ev

\* The perimeter slots of field k whose value the step changes.
SlotsChanged(k) == {i \in Slots : perimeter'[k][i].value # perimeter[k][i].value}

\* The interior cells of field k whose value the step changes.
CellsChanged(k) == {j \in Cells : gridnodes'[k][j].value # gridnodes[k][j].value}

\* C15 as stated: a call leaves the values of every other field unchanged
\* and changes, in its field, only cells on the path and the values of two
\* perimeter slots.
C15_TwoSlots ==
    [][log' # log =>
        LET e == log'[Len(log')] IN
        /\ \A k \in Fields \ {e.field} : SlotsChanged(k) = {} /\ CellsChanged(k) = {}
        /\ \A j \in CellsChanged(e.field) : Passes(e, GridPtr(e.field, j)) > 0
        /\ Cardinality(SlotsChanged(e.field)) <= 2
    ]_vars

\* C15 amended: a call leaves the values of every other field unchanged and
\* changes, in its field, only cells on the path and the values of at most
\* four perimeter slots: the entry slot, the exit slot and the slots g1 and
\* g2 of the window.
C15_Frame ==
    [][log' # log =>
        LET e == log'[Len(log')] IN
        /\ \A k \in Fields \ {e.field} : SlotsChanged(k) = {} /\ CellsChanged(k) = {}
        /\ \A j \in CellsChanged(e.field) : Passes(e, GridPtr(e.field, j)) > 0
        /\ SlotsChanged(e.field) \subseteq {e.start, e.end[3], roll_g1, roll_g2}
    ]_vars

\* A call handled by a field other than the first that turned a mirror and
\* rolled through four different slots.
C15_Witness ==
    /\ log # <<>> /\ status = "running"
    /\ LastEntry.field # 0
    /\ Cardinality({LastEntry.start, LastEntry.end[3], LastEntry.g1, LastEntry.g2}) = 4
    /\ \E n \in DOMAIN LastEntry.path :
          Deref(Mem, LastEntry.path[n]).value # MIRROR_NONE

\* C16 as stated: a traversal passes through no interior cell twice.
C16_VisitedOnce ==
    log # <<>> =>
        \A j \in Cells : Passes(LastEntry, GridPtr(LastEntry.field, j)) <= 1

\* The cell values of a field after turning the cells of path one step
\* each, from the first to the last, a cell once for every time it occurs.
RECURSIVE Collected(_, _, _)
Collected(row, path, n) ==
    IF n > Len(path)
    THEN row
    ELSE Collected([row EXCEPT ![path[n][3]].value = Advanced(@, 1)], path, n + 1)

\* C16 amended: a traversal passes through no interior cell more than twice,
\* and collecting the path and turning each collected cell once for every
\* time it occurs gives the values the recursive routine leaves.
C16_VisitedTwice ==
    [][log' # log =>
        LET e == log'[Len(log')] IN
        /\ e.status = "ok"
        /\ \A j \in Cells : Passes(e, GridPtr(e.field, j)) <= 2
        /\ gridnodes'[e.field] = Collected(gridnodes[e.field], e.path, 1)
    ]_vars

\* A traversal that passed through a cell twice, once downwards or upwards
\* and once sideways.
C16_Witness ==
    /\ log # <<>>
    /\ \E j \in Cells : Passes(LastEntry, GridPtr(LastEntry.field, j)) = 2
    /\ LastEntry.end \in {PerimPtr(LastEntry.field, i) : i \in Slots}

\* C17: when the second process is given the byte the first one returned,
\* its traversal enters at the exit slot of the first (at the entry slot
\* when the byte came back unchanged) and passes through the same cells
\* the same number of times, and after the call both processes are in the
\* same state.
C17_LockStep ==
    /\ peer.status = "running"
    /\ \A n \in DOMAIN peer.log :
          /\ peer.log[n].status = "ok"
          /\ peer.log[n].field = log[n].field
          /\ peer.log[n].start =
                IF log[n].rv = log[n].ch THEN log[n].start ELSE log[n].end[3]
          /\ \A j \in Cells :
                Passes(peer.log[n], GridPtr(log[n].field, j))
                    = Passes(log[n], GridPtr(log[n].field, j))
    /\ Len(peer.log) = Len(log) => peer.mem = Mem

\* Both processes have made the same calls, one of which the second made
\* from the exit slot through several cells in the opposite order, and one
\* of which returned its byte unchanged.
C17_Witness ==
    /\ log # <<>> /\ Len(peer.log) = Len(log)
    /\ \E n \in DOMAIN log :
          /\ log[n].rv # log[n].ch
          /\ Len(log[n].path) > 1
          /\ peer.log[n].path # log[n].path
          /\ peer.log[n].end = PerimPtr(log[n].field, log[n].start)
    /\ \E n \in DOMAIN log : log[n].rv = log[n].ch

\* C18: every index into a perimeter row used by a call lies within
\* 0 .. GRID_SIZE*4-1: the indices sv and ev of the comparison of the roll,
\* the index (ev + sv) mod GRID_SIZE*4 of the output selection, the window
\* indices g1 and g2; and the searches of the roll end at a slot.
C18_IndicesInRange ==
    \A n \in DOMAIN log :
        /\ log[n].status = "ok"
        /\ log[n].sv \in Slots /\ log[n].ev \in Slots
        /\ (log[n].ev + log[n].sv) % (GRID_SIZE * 4) \in Slots
        /\ log[n].g1 \in Slots /\ log[n].g2 \in Slots
        /\ \E i \in Slots : perimeter[log[n].field][i].value = log[n].sv
        /\ \E i \in Slots : perimeter[log[n].field][i].value = log[n].ev

\* C19: the traversal ends at a perimeter node other than the one it
\* started from, so sv and ev differ and the two swaps of the roll move
\* different values.
C19_ExitNotEntry ==
    log # <<>> =>
        /\ LastEntry.status = "ok"
        /\ LastEntry.end \in {PerimPtr(LastEntry.field, i) : i \in Slots}
        /\ LastEntry.end # PerimPtr(LastEntry.field, LastEntry.start)
        /\ LastEntry.sv # LastEntry.ev

\* A traversal that came back to the first cell it entered and left by
\* another slot.
C19_Witness ==
    /\ log # <<>>
    /\ Len(LastEntry.path) > 1
    /\ LastEntry.path[1] = LastEntry.path[Len(LastEntry.path)]
    /\ LastEntry.end # PerimPtr(LastEntry.field, LastEntry.start)
    /\ LastEntry.sv # LastEntry.ev

\* C20: g1 and g2 are perimeter indices, c is a field index, and g2 is g1
\* plus GRID_SIZE*2 modulo GRID_SIZE*4, so g1 and g2 differ.
C20_WindowShape ==
    /\ roll_g1 \in 0 .. (GRID_SIZE * 4 - 1)
    /\ roll_g2 \in 0 .. (GRID_SIZE * 4 - 1)
    /\ roll_c \in 0 .. (MIRROR_FIELD_COUNT - 1)
    /\ roll_g2 = (roll_g1 + GRID_SIZE * 2) % (GRID_SIZE * 4)
    /\ roll_g1 # roll_g2

\* The window after g2 has gone past the last slot, in the middle of a round.
C20_Witness ==
    /\ roll_g2 = 0 /\ roll_g1 = GRID_SIZE * 2
    /\ roll_c = MIRROR_FIELD_COUNT - 1
    /\ Len(log) > GRID_SIZE * 2 * MIRROR_FIELD_COUNT

====
